---- MODULE Spec2Model ----
(***************************************************************************)
(* A model of the two programs of the Longhorn disaster-recovery toolkit:  *)
(*   update_volume_mapping.py  the Mapping Synchronizer (a watch loop that *)
(*                             rewrites longhorn-volume-mapping.json), and *)
(*   restore_tool.py           the guided restore (per mapping entry:      *)
(*                             resolve backups, prompt, locate manifest,   *)
(*                             copy / annotate / apply / wait / rollback). *)
(* Each program is a state machine of its own specification (SyncSpec,     *)
(* SyncFairSpec, QuietFairSpec for the synchronizer; RestoreSpec for the   *)
(* restore run, ListSpec and FindSpec for two of its functions); the       *)
(* variables of the other program stay at their initial values.            *)
(***************************************************************************)
EXTENDS Integers, Sequences, FiniteSets, TLC

VARIABLES
    \* ---- update_volume_mapping.py ----
    cluster,       \* the claims of the cluster: claim index -> "absent" | "pending" | "bound"
    mappingFile,   \* MAPPING_FILE on disk: [exists, entries, complete]
    pc,            \* the synchronizer's position
    caller,        \* who called update_mapping_file: "bootstrap" (line 108) | "event" (line 78)
    mapping_data,  \* update_mapping_file's local: the list being written
    written,       \* how many entries of mapping_data json.dump has written
    events,        \* events the open stream holds and the for loop has not consumed
    endCause,      \* how the last watch_for_changes ended
    exitCause,     \* why the process ended
    changes,       \* cluster changes so far (bounded by MaxChanges)
    failures,      \* cluster API and stream failures so far (bounded by MaxFailures)
    ioErrors,      \* IOErrors of MAPPING_FILE so far (bounded by MaxIoErrors)
    ret_items,     \* ret.items of the enumeration of the running pass (<<>> outside a pass)
    lastPass,      \* the last pass that wrote the whole file: what it enumerated and wrote
    signalAt,      \* where the shutdown signal interrupted the program (NoSignal before it)
    \* ---- restore_tool.py ----
    pvc_mappings,  \* the list main read from MAPPING_FILE
    idx,           \* the for loop's position in pvc_mappings (0 before the first entry)
    rpc,           \* main's position within the current entry
    response,      \* what the catalog answered to get_backups_for_volume's calls
    backups,       \* what get_backups_for_volume returned (or raised)
    chosen_backup, \* the backup the operator chose, NoBackup for None
    manifest_path, \* the file find_pvc_manifest returned, 0 for None
    files,         \* the manifest files' contents, in glob order
    baks,          \* the contents of the sibling ".bak" files
    elapsed,       \* wait_for_pvc_bound: time.time() - start_time (0 outside the call)
    raising,       \* an exception the except clause did not catch is propagating
    outcome,       \* how the current entry ended
    prompts,       \* the input() prompts of the current entry, each with its answer
    startFs,       \* files and baks as they were when the current entry began
    copied,        \* shutil.copy of line 178 completed for the current entry
    applyIssued    \* the entries (by position) for which create_from_yaml was called

syncVars == <<cluster, mappingFile, pc, caller, mapping_data, written, events,
              endCause, exitCause, changes, failures, ioErrors, ret_items, lastPass,
              signalAt>>

restoreVars == <<pvc_mappings, idx, rpc, response, backups, chosen_backup, manifest_path,
                 files, baks, elapsed, raising, outcome, prompts, startFs, copied,
                 applyIssued>>

vars == <<syncVars, restoreVars>>

\* ---------------------------------------------------------------- bounds
MaxChanges == 2
MaxFailures == 2
MaxEvents == 2
MaxIoErrors == 1

\* ------------------------------------------------- the cluster's claims
\* The claims that may exist, in the order the API lists them.
ClaimKeys ==
    << [namespace |-> "ns1", name |-> "data"],
       [namespace |-> "ns2", name |-> "data"] >>

VolumeNames == << "pvc-ab12", "pvc-cd34" >>

NoVolume == ""

ClaimIds == 1..Len(ClaimKeys)

ClaimStates == {"absent", "pending", "bound"}

\* The V1PersistentVolumeClaim the API returns for claim i in state s.
PvcObject(i, s) ==
    [namespace   |-> ClaimKeys[i].namespace,
     name        |-> ClaimKeys[i].name,
     volume_name |-> IF s = "bound" THEN VolumeNames[i] ELSE NoVolume]

\* ret.items of list_persistent_volume_claim_for_all_namespaces.
RECURSIVE ListItemsFrom(_, _)
ListItemsFrom(c, i) ==
    IF i > Len(ClaimKeys) THEN <<>>
    ELSE (IF c[i] = "absent" THEN <<>> ELSE <<PvcObject(i, c[i])>>)
         \o ListItemsFrom(c, i + 1)

ListItems(c) == ListItemsFrom(c, 1)

\* The loop of lines 34-41 without the test of line 36.
RECURSIVE get_pvc_mapping_unfiltered(_)
get_pvc_mapping_unfiltered(items) ==
    IF items = <<>> THEN <<>>
    ELSE LET pvc == Head(items)
         IN  << [namespace  |-> pvc.namespace,
                 pvcName    |-> pvc.name,
                 volumeName |-> pvc.volume_name] >>
             \o get_pvc_mapping_unfiltered(Tail(items))

\* get_pvc_mapping's loop: one entry per claim that has a volume name.
RECURSIVE get_pvc_mapping(_)
get_pvc_mapping(items) ==
    IF items = <<>> THEN <<>>
    ELSE LET pvc == Head(items)
         IN  (IF pvc.volume_name # NoVolume
              THEN << [namespace  |-> pvc.namespace,
                       pvcName    |-> pvc.name,
                       volumeName |-> pvc.volume_name] >>
              ELSE <<>>)
             \o get_pvc_mapping(Tail(items))

NoFile == [exists |-> FALSE, entries |-> <<>>, complete |-> FALSE]

CompleteFile(entries) == [exists |-> TRUE, entries |-> entries, complete |-> TRUE]

ClusterStates == [ClaimIds -> ClaimStates]

\* A pass of update_mapping_file that ran to the end of line 57: the items it
\* enumerated, the file it left, whether the pass before it enumerated the same
\* items, and the file that earlier pass left.
Pass(items, store, repeat, prev_store) ==
    [done |-> TRUE, items |-> items, store |-> store, repeat |-> repeat,
     prev_store |-> prev_store]

\* The position at which a signal handler ran: the program counter and, inside
\* update_mapping_file, its caller.
NoSignal == [pc |-> "none", caller |-> "none"]

\* The except clauses around a position, innermost first, by the class they name:
\* line 43 around the enumeration, line 58 around the file write, lines 80 and 86
\* around the for loop of watch_for_changes, line 114 around its call. A sleep
\* inside an except clause (lines 85, 88) has only line 114 around it, and the
\* first pass (line 108) has nothing around update_mapping_file.
Handlers(at) ==
    LET inner == CASE at.pc = "list"           -> <<"ApiException">>
                   [] at.pc \in {"open", "dump"} -> <<"IOError">>
                   [] OTHER                    -> <<>>
        outer == CASE at.pc \in {"list", "open", "dump"} /\ at.caller = "bootstrap" -> <<>>
                   [] at.pc \in {"list", "open", "dump", "stream", "settle"} ->
                          <<"ApiException", "Exception", "Exception">>
                   [] OTHER -> <<"Exception">>
    IN  inner \o outer

\* "except Exception" written as a clause that catches every exception, SystemExit
\* included.
CatchesEverything(handler, exc) ==
    \/ handler = exc
    \/ handler = "Exception"

\* Whether "except <handler>" catches an exception of class exc. SystemExit derives
\* from BaseException, not from Exception.
Catches(handler, exc) ==
    \/ handler = exc
    \/ handler = "Exception" /\ exc \in {"ApiException", "IOError", "Exception"}

\* Whether some except clause around the position catches the exception.
Caught(at, exc) == \E i \in 1..Len(Handlers(at)) : Catches(Handlers(at)[i], exc)

NoPass == [done |-> FALSE, items |-> <<>>, store |-> NoFile, repeat |-> FALSE,
           prev_store |-> NoFile]

\* ------------------------------------------------- restore_tool.py: data
MaxBackups == 2
MaxEntries == 2
MaxDirs == 3

\* wait_for_pvc_bound's timeout (line 91) and its sleep between polls (line 100).
Timeout == 300
PollInterval == 5

\* config_env['bucket_name'].
Bucket == "mybucket"

\* "Created" is a string of the fixed format %Y-%m-%dT%H:%M:%SZ: a sequence of
\* fixed-width numeric fields, here <<day, hour>>.
Timestamps == { <<1, 0>>, <<1, 12>>, <<2, 0>> }

RestoreTimestamps == { <<1, 0>>, <<2, 0>> }

BackupVolumes == { VolumeNames[i] : i \in ClaimIds }

\* backup.cfg of one backup directory, as get_object and json.loads find it:
\*   ok           a JSON object with Name, VolumeName and Created
\*   missing      get_object raises ClientError NoSuchKey
\*   denied       get_object raises another ClientError
\*   undecodable  the body is not UTF-8 (UnicodeDecodeError)
\*   unparsable   the body is not JSON (json.JSONDecodeError)
\*   nofield      a JSON object lacking Name, VolumeName or Created (KeyError)
BadCfgKinds == {"missing", "denied", "undecodable", "unparsable", "nofield"}

GoodCfg(i, v, t) == [kind |-> "ok", Name |-> i, VolumeName |-> v, Created |-> t]

BadCfg(k) == [kind |-> k, Name |-> 0, VolumeName |-> "", Created |-> <<0, 0>>]

\* The directories under the backups/ prefix; the i-th holds the backup named i.
RECURSIVE DirListings(_, _, _)
DirListings(n, stamps, bad) ==
    IF n = 0 THEN {<<>>}
    ELSE LET shorter == DirListings(n - 1, stamps, bad)
             full == {d \in shorter : Len(d) = n - 1}
         IN  shorter \cup
             { Append(d, c) : d \in full,
                              c \in {GoodCfg(n, v, t) : v \in BackupVolumes, t \in stamps}
                                    \cup {BadCfg(k) : k \in bad} }

\* list_objects_v2's outcome: "ok" with the CommonPrefixes, a ClientError, or an
\* error that is no ClientError (the endpoint cannot be reached).
Responses(n, stamps, bad) ==
    { [list |-> "ok", dirs |-> d] : d \in DirListings(n, stamps, bad) }
    \cup { [list |-> k, dirs |-> <<>>] : k \in {"client_error", "connection_error"} }

NoResponse == [list |-> "unset", dirs |-> <<>>]

\* ------------------------------------- get_backups_for_volume (lines 45-69)
\* Python compares the created_at strings character by character.
RECURSIVE StrLess(_, _)
StrLess(a, b) ==
    IF a = <<>> \/ b = <<>> THEN a = <<>> /\ b # <<>>
    ELSE IF Head(a) # Head(b) THEN Head(a) < Head(b)
    ELSE StrLess(Tail(a), Tail(b))

Reverse(s) == [i \in 1..Len(s) |-> s[Len(s) + 1 - i]]

\* x placed after every element whose key is not greater: a stable insertion.
RECURSIVE InsertStable(_, _)
InsertStable(x, s) ==
    IF s = <<>> THEN <<x>>
    ELSE IF StrLess(x.created_at, Head(s).created_at) THEN <<x>> \o s
    ELSE <<Head(s)>> \o InsertStable(x, Tail(s))

RECURSIVE StableSortAscending(_)
StableSortAscending(s) ==
    IF s = <<>> THEN <<>>
    ELSE InsertStable(s[Len(s)], StableSortAscending(SubSeq(s, 1, Len(s) - 1)))

\* sorted(..., reverse=True) of line 61 written as a plain sort followed by a
\* reversal: equal keys come out in reverse enumeration order.
sorted_then_reversed(s) == Reverse(StableSortAscending(s))

\* sorted(backups, key=created_at, reverse=True), line 61: the list is reversed,
\* sorted stably in ascending order and reversed again, which keeps equal keys in
\* their original order.
sorted_by_created_desc(s) == Reverse(StableSortAscending(Reverse(s)))

BackupRecord(cfg) ==
    [name |-> cfg.Name, volume_name |-> cfg.VolumeName, created_at |-> cfg.Created]

ListResult(items) == [kind |-> "list", items |-> items]
NoneResult == [kind |-> "none", items |-> <<>>]
RaiseResult == [kind |-> "raise", items |-> <<>>]
NoResult == [kind |-> "unset", items |-> <<>>]

\* lines 51-60: the loop over the CommonPrefixes; the first directory whose
\* backup.cfg cannot be used ends the call.
RECURSIVE CollectBackups(_, _)
CollectBackups(dirs, acc) ==
    IF dirs = <<>> THEN ListResult(sorted_by_created_desc(acc))
    ELSE LET cfg == Head(dirs)
         IN  CASE cfg.kind = "ok"          -> CollectBackups(Tail(dirs), Append(acc, BackupRecord(cfg)))
               [] cfg.kind = "missing"     -> ListResult(<<>>)   \* lines 62-64
               [] cfg.kind = "denied"      -> NoneResult         \* lines 65-66
               [] cfg.kind = "unparsable"  -> NoneResult         \* lines 67-69
               [] cfg.kind = "undecodable" -> RaiseResult        \* not caught
               [] cfg.kind = "nofield"     -> RaiseResult        \* not caught

\* An empty listing reported as the error outcome.
get_backups_empty_is_error(resp) ==
    CASE resp.list = "ok" /\ resp.dirs = <<>> -> NoneResult
      [] resp.list = "ok"                    -> CollectBackups(resp.dirs, <<>>)
      [] resp.list = "client_error"          -> NoneResult
      [] resp.list = "connection_error"      -> RaiseResult

get_backups_for_volume(resp) ==
    CASE resp.list = "ok"               -> CollectBackups(resp.dirs, <<>>)
      [] resp.list = "client_error"     -> NoneResult    \* lines 62-66
      [] resp.list = "connection_error" -> RaiseResult   \* not caught

\* -------------------------------------------- the manifest files on disk
\* A file's content:
\*   shape  "pvc"          one document, a PersistentVolumeClaim
\*          "nullann"      the same, with "annotations:" left empty (None)
\*          "multi"        several documents, one a PersistentVolumeClaim
\*          "other"        one document of another kind
\*          "nonmapping"   one document that is a list
\*          "nullmetadata" a PersistentVolumeClaim with "metadata:" left empty
\*          "badyaml"      not YAML
\*          "unreadable"   open() raises IOError
\*          "partial"      a file whose writing was cut short
\*          "missing"      no such file
\*   name   metadata.name of the claim document
\*   ann    the value of longhorn.io/from-backup, <<>> when absent
\*   fmt    "orig" as its author wrote it, "dumped" as yaml.dump writes it
Content(shape, name, ann, fmt) == [shape |-> shape, name |-> name, ann |-> ann, fmt |-> fmt]

Missing == Content("missing", "", <<>>, "")

Partial == Content("partial", "", <<>>, "")

\* The manifest files in the order glob yields them: apps/** before databases/**.
ManifestPaths ==
    << [root |-> "apps",      path |-> "apps/ns1/data.yaml",          contains |-> {"ns1"}],
       [root |-> "databases", path |-> "databases/ns1-ns2/data.yaml", contains |-> {"ns1", "ns2"}] >>

FileIds == 1..Len(ManifestPaths)

\* "namespace in filepath", line 85.
PathContains(i, namespace) == namespace \in ManifestPaths[i].contains

NotFound == [kind |-> "none", file |-> 0]
FindRaises == [kind |-> "raise", file |-> 0]
Found(i) == [kind |-> "path", file |-> i]

\* lines 80-88 for one file: "skip" (no match, or YAMLError / IOError), "match",
\* or "raise" (doc.get on a list, .get on a None metadata: AttributeError).
ScanFile(c, pvc_name) ==
    CASE c.shape \in {"pvc", "nullann", "multi"} -> IF c.name = pvc_name THEN "match" ELSE "skip"
      [] c.shape = "nonmapping"                 -> "raise"
      [] c.shape = "nullmetadata"               -> "raise"
      [] OTHER                                  -> "skip"

RECURSIVE FindFrom(_, _, _, _)
FindFrom(pvc_name, namespace, fs, i) ==
    IF i > Len(ManifestPaths) THEN NotFound
    ELSE LET r == ScanFile(fs[i], pvc_name)
         IN  IF r = "raise" THEN FindRaises
             ELSE IF r = "match" /\ PathContains(i, namespace) THEN Found(i)
             ELSE FindFrom(pvc_name, namespace, fs, i + 1)

find_pvc_manifest(pvc_name, namespace, fs) == FindFrom(pvc_name, namespace, fs, 1)

NoBackup == [name |-> 0, volume_name |-> "", created_at |-> <<0, 0>>]

\* The entries MAPPING_FILE may hold.
Entries ==
    { [namespace |-> "ns1", pvcName |-> "data", volumeName |-> "pvc-ab12"],
      [namespace |-> "ns2", pvcName |-> "data", volumeName |-> "pvc-cd34"],
      [namespace |-> "ns1", pvcName |-> "logs", volumeName |-> "pvc-ef56"] }

RECURSIVE MappingLists(_)
MappingLists(n) ==
    IF n = 0 THEN {<<>>}
    ELSE LET shorter == MappingLists(n - 1)
         IN  shorter \cup
             { Append(m, e) : m \in {x \in shorter : Len(x) = n - 1},
                              e \in Entries }

NoDuplicates(m) == \A i, j \in 1..Len(m) : m[i] = m[j] => i = j

CurrentEntry == pvc_mappings[idx]

\* One input() call: the question q and the text a typed; for "Choose a backup
\* number" also the number n that text denotes and how many backups the list
\* printed before it showed (both 0 for the other questions).
Prompt(q, a, n, shown) == [q |-> q, a |-> a, n |-> n, shown |-> shown]

\* line 174: the f-string, as its pieces.
backup_url_of_entry_volume ==
    << "s3://", Bucket, "@/longhorn/?backup=", chosen_backup.name,
       "&volume=", CurrentEntry.volumeName >>

backup_url ==
    << "s3://", Bucket, "@/longhorn/?backup=", chosen_backup.name,
       "&volume=", chosen_backup.volume_name >>

\* Each program's variables while the other program runs.
RestoreIdle ==
    /\ pvc_mappings = <<>>
    /\ idx = 0
    /\ rpc = "idle"
    /\ response = NoResponse
    /\ backups = NoResult
    /\ chosen_backup = NoBackup
    /\ manifest_path = 0
    /\ files = <<Missing, Missing>>
    /\ baks = <<Missing, Missing>>
    /\ elapsed = 0
    /\ raising = FALSE
    /\ outcome = "none"
    /\ prompts = <<>>
    /\ startFs = [files |-> <<Missing, Missing>>, baks |-> <<Missing, Missing>>]
    /\ copied = FALSE
    /\ applyIssued = {}

SyncIdle ==
    /\ cluster = [i \in ClaimIds |-> "absent"]
    /\ mappingFile = NoFile
    /\ pc = "idle"
    /\ caller = "bootstrap"
    /\ mapping_data = <<>>
    /\ written = 0
    /\ events = 0
    /\ endCause = "none"
    /\ exitCause = "none"
    /\ changes = 0
    /\ failures = 0
    /\ ioErrors = 0
    /\ ret_items = <<>>
    /\ lastPass = NoPass
    /\ signalAt = NoSignal

\* ------------------------------------------------------ the synchronizer
SyncInit ==
    /\ cluster \in ClusterStates
    /\ mappingFile \in {NoFile, CompleteFile(get_pvc_mapping(ListItems([i \in ClaimIds |-> "bound"])))}
    /\ pc = "list"
    /\ caller = "bootstrap"
    /\ mapping_data = <<>>
    /\ written = 0
    /\ events = 0
    /\ endCause = "none"
    /\ exitCause = "none"
    /\ changes = 0
    /\ failures = 0
    /\ ioErrors = 0
    /\ ret_items = <<>>
    /\ lastPass = NoPass
    /\ signalAt = NoSignal
    /\ RestoreIdle

\* The watch connection is open from w.stream's first read until the for loop ends.
StreamOpen == pc = "stream" \/ pc = "settle" \/ (pc \in {"list", "open", "dump"} /\ caller = "event")

\* update_mapping_file returns to line 108 (then the main loop) or to the for loop.
ReturnPc == IF caller = "bootstrap" THEN "watch" ELSE "stream"

\* line 32 and 33-42: the enumeration succeeds.
ListOk ==
    /\ pc = "list"
    /\ ret_items' = ListItems(cluster)
    /\ mapping_data' = get_pvc_mapping(ListItems(cluster))
    /\ pc' = "open"
    /\ UNCHANGED <<cluster, mappingFile, caller, written, events, endCause, exitCause, changes, failures, ioErrors,
                   lastPass>>
    /\ UNCHANGED signalAt
    /\ UNCHANGED restoreVars

\* lines 43-45 and 53: ApiException, get_pvc_mapping returns None, nothing is written.
ListApiException ==
    /\ pc = "list"
    /\ failures < MaxFailures
    /\ failures' = failures + 1
    /\ pc' = ReturnPc
    /\ UNCHANGED <<cluster, mappingFile, caller, mapping_data, written, events, endCause, exitCause, changes, ioErrors,
                   ret_items, lastPass>>
    /\ UNCHANGED signalAt
    /\ UNCHANGED restoreVars

\* line 32 raises something that is no ApiException (a connection error): nothing
\* in get_pvc_mapping or update_mapping_file catches it. Called from line 108 it
\* ends the process; called from line 78 the watch's "except Exception" catches it.
ListOtherException ==
    /\ pc = "list"
    /\ failures < MaxFailures
    /\ failures' = failures + 1
    /\ IF caller = "bootstrap"
       THEN /\ pc' = "exited"
            /\ exitCause' = "crash"
            /\ UNCHANGED <<events, endCause, ioErrors>>
       ELSE /\ pc' = "backoff"
            /\ endCause' = "error"
            /\ events' = 0
            /\ UNCHANGED exitCause
    /\ UNCHANGED <<cluster, mappingFile, caller, mapping_data, written, changes, ioErrors,
                   ret_items, lastPass>>
    /\ UNCHANGED signalAt
    /\ UNCHANGED restoreVars

\* The file opened for appending: what it holds stays in front of what is written.
OpenFileAppending ==
    /\ pc = "open"
    /\ mappingFile' = [exists |-> TRUE, entries |-> mappingFile.entries, complete |-> FALSE]
    /\ written' = 0
    /\ pc' = "dump"
    /\ UNCHANGED <<cluster, caller, mapping_data, events, endCause, exitCause, changes, failures, ioErrors,
                   ret_items, lastPass>>
    /\ UNCHANGED signalAt
    /\ UNCHANGED restoreVars

\* line 55: open(MAPPING_FILE, 'w') truncates the file.
OpenFile ==
    /\ pc = "open"
    /\ mappingFile' = [exists |-> TRUE, entries |-> <<>>, complete |-> FALSE]
    /\ written' = 0
    /\ pc' = "dump"
    /\ UNCHANGED <<cluster, caller, mapping_data, events, endCause, exitCause, changes, failures, ioErrors,
                   ret_items, lastPass>>
    /\ UNCHANGED signalAt
    /\ UNCHANGED restoreVars

\* line 55 raises IOError before the file is touched; lines 58-59 log it.
OpenFileError ==
    /\ pc = "open"
    /\ ioErrors < MaxIoErrors
    /\ ioErrors' = ioErrors + 1
    /\ ret_items' = <<>>
    /\ pc' = ReturnPc
    /\ UNCHANGED <<cluster, mappingFile, caller, mapping_data, written, events, endCause, exitCause, changes, failures,
                   lastPass>>
    /\ UNCHANGED signalAt
    /\ UNCHANGED restoreVars

\* line 56: json.dump writes the document piece by piece.
DumpChunk ==
    /\ pc = "dump"
    /\ written < Len(mapping_data)
    /\ mappingFile' = [mappingFile EXCEPT !.entries = Append(@, mapping_data[written + 1])]
    /\ written' = written + 1
    /\ UNCHANGED <<cluster, pc, caller, mapping_data, events, endCause, exitCause, changes, failures, ioErrors,
                   ret_items, lastPass>>
    /\ UNCHANGED signalAt
    /\ UNCHANGED restoreVars

\* line 56 ends: the closing bracket is written and the with block closes the file.
DumpClose ==
    /\ pc = "dump"
    /\ written = Len(mapping_data)
    /\ mappingFile' = [mappingFile EXCEPT !.complete = TRUE]
    /\ lastPass' = Pass(ret_items, mappingFile', lastPass.done /\ lastPass.items = ret_items,
                        lastPass.store)
    /\ ret_items' = <<>>
    /\ pc' = ReturnPc
    /\ UNCHANGED <<cluster, caller, mapping_data, written, events, endCause, exitCause, changes, failures, ioErrors>>
    /\ UNCHANGED signalAt
    /\ UNCHANGED restoreVars

\* line 56 raises IOError part way; lines 58-59 log it, the file keeps what was written.
DumpError ==
    /\ pc = "dump"
    /\ ioErrors < MaxIoErrors
    /\ ioErrors' = ioErrors + 1
    /\ ret_items' = <<>>
    /\ pc' = ReturnPc
    /\ UNCHANGED <<cluster, mappingFile, caller, mapping_data, written, events, endCause, exitCause, changes, failures,
                   lastPass>>
    /\ UNCHANGED signalAt
    /\ UNCHANGED restoreVars

\* The events a watch opened with no resource version starts with: one ADDED
\* per existing claim.
InitialEvents(c) == Len(ListItems(c))

\* lines 66-69: the main loop calls watch_for_changes, which opens the stream.
OpenStream ==
    /\ pc = "watch"
    /\ pc' = "stream"
    /\ events' = InitialEvents(cluster)
    /\ endCause' = "none"
    /\ UNCHANGED <<cluster, mappingFile, caller, mapping_data, written, exitCause, changes, failures, ioErrors,
                   ret_items, lastPass>>
    /\ UNCHANGED signalAt
    /\ UNCHANGED restoreVars

\* lines 69-77: the for loop takes one event and sleeps 2 seconds.
StreamEvent ==
    /\ pc = "stream"
    /\ events > 0
    /\ events' = events - 1
    /\ pc' = "settle"
    /\ UNCHANGED <<cluster, mappingFile, caller, mapping_data, written, endCause, exitCause, changes, failures, ioErrors,
                   ret_items, lastPass>>
    /\ UNCHANGED signalAt
    /\ UNCHANGED restoreVars

\* line 78: after the settling sleep, update_mapping_file is called.
Settle ==
    /\ pc = "settle"
    /\ pc' = "list"
    /\ caller' = "event"
    /\ UNCHANGED <<cluster, mappingFile, mapping_data, written, events, endCause, exitCause, changes, failures, ioErrors,
                   ret_items, lastPass>>
    /\ UNCHANGED signalAt
    /\ UNCHANGED restoreVars

\* line 69: timeout_seconds=60 ends the stream; watch_for_changes returns to line 111.
StreamTimeout ==
    /\ pc = "stream"
    /\ events = 0
    /\ pc' = "watch"
    /\ endCause' = "timeout"
    /\ UNCHANGED <<cluster, mappingFile, caller, mapping_data, written, events, exitCause, changes, failures, ioErrors,
                   ret_items, lastPass>>
    /\ UNCHANGED signalAt
    /\ UNCHANGED restoreVars

\* lines 80-82: ApiException with status 410; a warning, then return to line 111.
StreamGone ==
    /\ pc = "stream"
    /\ failures < MaxFailures
    /\ failures' = failures + 1
    /\ pc' = "watch"
    /\ endCause' = "gone"
    /\ events' = 0
    /\ UNCHANGED <<cluster, mappingFile, caller, mapping_data, written, exitCause, changes, ioErrors,
                   ret_items, lastPass>>
    /\ UNCHANGED signalAt
    /\ UNCHANGED restoreVars

\* lines 83-88: any other ApiException or Exception of the stream; sleep 10 seconds.
StreamError ==
    /\ pc = "stream"
    /\ failures < MaxFailures
    /\ failures' = failures + 1
    /\ pc' = "backoff"
    /\ \E cause \in {"apierror", "error"} : endCause' = cause
    /\ events' = 0
    /\ UNCHANGED <<cluster, mappingFile, caller, mapping_data, written, exitCause, changes, ioErrors,
                   ret_items, lastPass>>
    /\ UNCHANGED signalAt
    /\ UNCHANGED restoreVars

\* lines 85 and 88: the sleep ends and watch_for_changes returns to line 111.
Backoff ==
    /\ pc = "backoff"
    /\ pc' = "watch"
    /\ UNCHANGED <<cluster, mappingFile, caller, mapping_data, written, events, endCause, exitCause, changes, failures, ioErrors,
                   ret_items, lastPass>>
    /\ UNCHANGED signalAt
    /\ UNCHANGED restoreVars

\* lines 90-93, 101-102: SIGINT or SIGTERM at any point; the handler's exit(0)
\* raises SystemExit where the program was. A file being written is closed as it is.
shutdown_handler ==
    /\ pc \notin {"exited", "unwinding"}
    /\ signalAt = NoSignal
    /\ signalAt' = [pc |-> pc, caller |-> caller]
    /\ pc' = "unwinding"
    /\ UNCHANGED <<cluster, mappingFile, caller, mapping_data, written, events, endCause, exitCause, changes, failures, ioErrors,
                   ret_items, lastPass>>
    /\ UNCHANGED restoreVars

\* SystemExit propagates through the except clauses around the interrupted
\* position: one that catches it logs, sleeps 10 seconds and watches again
\* (lines 87-88, 115-116); when none does, the process ends and its locals with it.
Unwind ==
    /\ pc = "unwinding"
    /\ IF Caught(signalAt, "SystemExit")
       THEN /\ pc' = "backoff"
            /\ endCause' = "error"
            /\ UNCHANGED <<exitCause, mapping_data, written>>
       ELSE /\ pc' = "exited"
            /\ exitCause' = "signal"
            /\ mapping_data' = <<>>
            /\ written' = 0
            /\ UNCHANGED endCause
    /\ events' = 0
    /\ ret_items' = <<>>
    /\ UNCHANGED <<cluster, mappingFile, caller, changes, failures, ioErrors, lastPass, signalAt>>
    /\ UNCHANGED restoreVars

\* The environment: a claim is created, bound, unbound or deleted. An open stream
\* receives the event. (Changes after the signal are left out: a program that is
\* ending reads nothing any more.)
ClusterChange ==
    /\ pc \notin {"exited", "unwinding"}
    /\ changes < MaxChanges
    /\ StreamOpen => events < MaxEvents
    /\ \E i \in ClaimIds, s \in ClaimStates :
          /\ s # cluster[i]
          /\ cluster' = [cluster EXCEPT ![i] = s]
    /\ changes' = changes + 1
    /\ events' = IF StreamOpen THEN events + 1 ELSE events
    /\ UNCHANGED <<mappingFile, pc, caller, mapping_data, written, endCause, exitCause, failures, ioErrors,
                   ret_items, lastPass>>
    /\ UNCHANGED signalAt
    /\ UNCHANGED restoreVars

SyncProgress ==
    \/ ListOk
    \/ OpenFile
    \/ DumpChunk
    \/ DumpClose
    \/ OpenStream
    \/ StreamEvent
    \/ Settle
    \/ StreamTimeout
    \/ Backoff
    \/ Unwind

SyncNext ==
    \/ ListOk
    \/ ListApiException
    \/ ListOtherException
    \/ OpenFile
    \/ OpenFileError
    \/ DumpChunk
    \/ DumpClose
    \/ DumpError
    \/ OpenStream
    \/ StreamEvent
    \/ Settle
    \/ StreamTimeout
    \/ StreamGone
    \/ StreamError
    \/ Backoff
    \/ shutdown_handler
    \/ Unwind
    \/ ClusterChange

SyncSpec == SyncInit /\ [][SyncNext]_vars

\* The program's own steps are taken whenever they stay possible: the process is
\* scheduled, sleeps end, the server ends a stream after its timeout.
SyncFairSpec == SyncSpec /\ WF_vars(SyncProgress)

\* The synchronizer against a cluster whose claims do not change: every step but
\* the environment's.
QuietNext ==
    \/ ListOk
    \/ ListApiException
    \/ ListOtherException
    \/ OpenFile
    \/ OpenFileError
    \/ DumpChunk
    \/ DumpClose
    \/ DumpError
    \/ OpenStream
    \/ StreamEvent
    \/ Settle
    \/ StreamTimeout
    \/ StreamGone
    \/ StreamError
    \/ Backoff
    \/ shutdown_handler
    \/ Unwind

QuietFairSpec == SyncInit /\ [][QuietNext]_vars /\ WF_vars(SyncProgress)

\* ------------------------------------------- restore_tool.py: main's loop
\* The S3 answers the restore run may meet, and the files it may start from.
RestoreResponses == Responses(MaxBackups, RestoreTimestamps, BadCfgKinds)

InitialFiles ==
    { <<Content(s1, "data", <<>>, "orig"), Content(s2, "data", <<>>, "orig")>> :
          s1 \in {"pvc", "other"}, s2 \in {"pvc", "multi", "nullann"} }

\* A ".bak" left by an earlier run whose operator kept the annotated manifest.
StaleBak == Content("pvc", "data", <<>>, "stale")

InitialBaks == { <<Missing, Missing>>, <<Missing, StaleBak>> }

\* lines 127-134 done: the mapping is read and the clients exist.
RestoreInit ==
    /\ SyncIdle
    /\ pvc_mappings \in {m \in MappingLists(MaxEntries) : NoDuplicates(m)}
    /\ idx = 0
    /\ rpc = "for"
    /\ response = NoResponse
    /\ backups = NoResult
    /\ chosen_backup = NoBackup
    /\ manifest_path = 0
    /\ files \in InitialFiles
    /\ baks \in InitialBaks
    /\ elapsed = 0
    /\ raising = FALSE
    /\ outcome = "none"
    /\ prompts = <<>>
    /\ startFs = [files |-> files, baks |-> baks]
    /\ copied = FALSE
    /\ applyIssued = {}

\* line 137: the for statement takes the next entry, or the loop ends (line 210).
ForNext ==
    /\ rpc = "for"
    /\ idx' = idx + 1
    /\ rpc' = IF idx + 1 > Len(pvc_mappings) THEN "done" ELSE "resolve"
    /\ response' = NoResponse
    /\ backups' = NoResult
    /\ chosen_backup' = NoBackup
    /\ manifest_path' = 0
    /\ elapsed' = 0
    /\ raising' = FALSE
    /\ outcome' = "none"
    /\ prompts' = <<>>
    /\ startFs' = [files |-> files, baks |-> baks]
    /\ copied' = FALSE
    /\ UNCHANGED <<pvc_mappings, files, baks, applyIssued>>
    /\ UNCHANGED syncVars

\* line 141: get_backups_for_volume is called; an exception it does not catch
\* leaves main.
ResolveBackups ==
    /\ rpc = "resolve"
    /\ \E resp \in RestoreResponses :
          /\ response' = resp
          /\ backups' = get_backups_for_volume(resp)
          /\ IF get_backups_for_volume(resp).kind = "raise"
             THEN rpc' = "aborted" /\ outcome' = "aborted"
             ELSE rpc' = "resolved" /\ UNCHANGED outcome
    /\ UNCHANGED <<pvc_mappings, idx, chosen_backup, manifest_path, files, baks, elapsed,
                   raising, prompts, startFs, copied, applyIssued>>
    /\ UNCHANGED syncVars

\* lines 142-144: backups is None.
SkipError ==
    /\ rpc = "resolved"
    /\ backups.kind = "none"
    /\ outcome' = "skipped_error"
    /\ rpc' = "for"
    /\ UNCHANGED <<pvc_mappings, idx, response, backups, chosen_backup, manifest_path, files,
                   baks, elapsed, raising, prompts, startFs, copied, applyIssued>>
    /\ UNCHANGED syncVars

\* lines 145-147: backups is empty.
SkipEmpty ==
    /\ rpc = "resolved"
    /\ backups.kind = "list"
    /\ backups.items = <<>>
    /\ outcome' = "skipped_empty"
    /\ rpc' = "for"
    /\ UNCHANGED <<pvc_mappings, idx, response, backups, chosen_backup, manifest_path, files,
                   baks, elapsed, raising, prompts, startFs, copied, applyIssued>>
    /\ UNCHANGED syncVars

\* The prompt "Restore? (y/n/list)" with every answer but "n" and "list" read as
\* an acceptance of the latest backup.
PromptRestoreAnyButNo ==
    /\ rpc = "resolved"
    /\ backups.kind = "list"
    /\ backups.items # <<>>
    /\ response' = NoResponse
    /\ \E user_choice \in {"y", "n", "list", "maybe"} :
          /\ prompts' = Append(prompts, Prompt("restore", user_choice, 0, 0))
          /\ CASE user_choice = "n" ->
                     /\ outcome' = "declined"
                     /\ backups' = NoResult
                     /\ rpc' = "for"
                     /\ UNCHANGED chosen_backup
               [] user_choice = "list" ->
                     /\ rpc' = "select"
                     /\ UNCHANGED <<chosen_backup, backups, outcome>>
               [] OTHER ->
                     /\ chosen_backup' = backups.items[1]
                     /\ backups' = NoResult
                     /\ rpc' = "locate"
                     /\ UNCHANGED outcome
    /\ UNCHANGED <<pvc_mappings, idx, manifest_path, files, baks, elapsed, raising, startFs,
                   copied, applyIssued>>
    /\ UNCHANGED syncVars

\* lines 149-153 and 165-167: the prompt "Restore? (y/n/list)" and its answer.
PromptRestore ==
    /\ rpc = "resolved"
    /\ backups.kind = "list"
    /\ backups.items # <<>>
    /\ response' = NoResponse
    /\ \E user_choice \in {"y", "n", "list", "maybe"} :
          /\ prompts' = Append(prompts, Prompt("restore", user_choice, 0, 0))
          /\ CASE user_choice = "y" ->
                     /\ chosen_backup' = backups.items[1]
                     /\ backups' = NoResult
                     /\ rpc' = "locate"
                     /\ UNCHANGED outcome
               [] user_choice = "list" ->
                     /\ rpc' = "select"
                     /\ UNCHANGED <<chosen_backup, backups, outcome>>
               [] OTHER ->
                     /\ outcome' = "declined"
                     /\ backups' = NoResult
                     /\ rpc' = "for"
                     /\ UNCHANGED chosen_backup
    /\ UNCHANGED <<pvc_mappings, idx, manifest_path, files, baks, elapsed, raising, startFs,
                   copied, applyIssued>>
    /\ UNCHANGED syncVars

\* lines 155-167: the list, "Choose a backup number" and its answer: a number
\* typed, or a text int() rejects (ValueError, caught by line 162).
SelectBackup ==
    /\ rpc = "select"
    /\ \E typed \in 0..(MaxBackups + 1), numeric \in BOOLEAN :
          /\ ~numeric => typed = 0
          /\ prompts' = Append(prompts, Prompt("select", IF numeric THEN "number" ELSE "text",
                                               typed, Len(backups.items)))
          /\ LET selection == typed - 1
             IN  IF numeric /\ 0 <= selection /\ selection < Len(backups.items)
                 THEN /\ chosen_backup' = backups.items[selection + 1]
                      /\ rpc' = "locate"
                      /\ UNCHANGED outcome
                 ELSE /\ outcome' = "invalid_selection"
                      /\ rpc' = "for"
                      /\ UNCHANGED chosen_backup
    /\ backups' = NoResult
    /\ UNCHANGED <<pvc_mappings, idx, response, manifest_path, files, baks, elapsed, raising,
                   startFs, copied, applyIssued>>
    /\ UNCHANGED syncVars

\* lines 169-171: find_pvc_manifest; None skips the entry, an AttributeError
\* inside it leaves main.
LocateManifest ==
    /\ rpc = "locate"
    /\ LET found == find_pvc_manifest(CurrentEntry.pvcName, CurrentEntry.namespace, files)
       IN  CASE found.kind = "path" ->
                   /\ manifest_path' = found.file
                   /\ rpc' = "copy"
                   /\ UNCHANGED <<outcome, chosen_backup>>
             [] found.kind = "none" ->
                   /\ outcome' = "no_manifest"
                   /\ rpc' = "for"
                   /\ chosen_backup' = NoBackup
                   /\ UNCHANGED manifest_path
             [] found.kind = "raise" ->
                   /\ outcome' = "aborted"
                   /\ rpc' = "aborted"
                   /\ UNCHANGED <<manifest_path, chosen_backup>>
    /\ UNCHANGED <<pvc_mappings, idx, response, backups, files, baks, elapsed, raising, prompts,
                   startFs, copied, applyIssued>>
    /\ UNCHANGED syncVars

\* --------------------------------------- the transaction (lines 177-208)
\* shutil.move(manifest_backup_path, manifest_path), lines 199 and 205.
MoveBakOver(fs, bs, m) ==
    [files |-> [fs EXCEPT ![m] = bs[m]], baks |-> [bs EXCEPT ![m] = Missing]]

\* A rollback that copies the ".bak" back and leaves it on disk.
RollbackKeepingBak(fs, bs, m) ==
    IF bs[m] # Missing THEN [files |-> [fs EXCEPT ![m] = bs[m]], baks |-> bs]
    ELSE [files |-> fs, baks |-> bs]

\* lines 198-199: the except clause's rollback.
Rollback(fs, bs, m) ==
    IF bs[m] # Missing THEN MoveBakOver(fs, bs, m) ELSE [files |-> fs, baks |-> bs]

\* A copy that succeeds but lands somewhere else than manifest_path + ".bak".
CopyManifestElsewhere ==
    /\ rpc = "copy"
    /\ copied' = TRUE
    /\ rpc' = "load"
    /\ UNCHANGED <<pvc_mappings, idx, response, backups, chosen_backup, manifest_path, files,
                   baks, elapsed, raising, outcome, prompts, startFs, applyIssued>>
    /\ UNCHANGED syncVars

\* line 178: shutil.copy succeeds.
CopyManifest ==
    /\ rpc = "copy"
    /\ baks' = [baks EXCEPT ![manifest_path] = files[manifest_path]]
    /\ copied' = TRUE
    /\ rpc' = "load"
    /\ UNCHANGED <<pvc_mappings, idx, response, backups, chosen_backup, manifest_path, files,
                   elapsed, raising, outcome, prompts, startFs, applyIssued>>
    /\ UNCHANGED syncVars

\* line 178 raises IOError / OSError: before the sibling file is opened for
\* writing, or after it was truncated and partly written.
CopyManifestError ==
    /\ rpc = "copy"
    /\ \E partly \in BOOLEAN :
          baks' = IF partly THEN [baks EXCEPT ![manifest_path] = Partial] ELSE baks
    /\ rpc' = "except"
    /\ UNCHANGED <<pvc_mappings, idx, response, backups, chosen_backup, manifest_path, files,
                   elapsed, raising, outcome, prompts, startFs, copied, applyIssued>>
    /\ UNCHANGED syncVars

\* lines 179-182: the manifest is read as one document and the annotation is set
\* in memory.
LoadManifest ==
    /\ rpc = "load"
    /\ files[manifest_path].shape = "pvc"
    /\ rpc' = "write"
    /\ UNCHANGED <<pvc_mappings, idx, response, backups, chosen_backup, manifest_path, files,
                   baks, elapsed, raising, outcome, prompts, startFs, copied, applyIssued>>
    /\ UNCHANGED syncVars

\* lines 179-180 raise: IOError on open or read, or yaml.YAMLError (safe_load of
\* a file holding several documents).
LoadManifestError ==
    /\ rpc = "load"
    /\ \E ioerror \in BOOLEAN : ioerror \/ files[manifest_path].shape = "multi"
    /\ rpc' = "except"
    /\ UNCHANGED <<pvc_mappings, idx, response, backups, chosen_backup, manifest_path, files,
                   baks, elapsed, raising, outcome, prompts, startFs, copied, applyIssued>>
    /\ UNCHANGED syncVars

\* line 182 raises TypeError: setdefault returned the None of an empty
\* "annotations:" key. The except clause does not name TypeError.
AnnotateTypeError ==
    /\ rpc = "load"
    /\ files[manifest_path].shape = "nullann"
    /\ raising' = TRUE
    /\ outcome' = "failed"
    /\ rpc' = "finally"
    /\ UNCHANGED <<pvc_mappings, idx, response, backups, chosen_backup, manifest_path, files,
                   baks, elapsed, prompts, startFs, copied, applyIssued>>
    /\ UNCHANGED syncVars

\* lines 184-185: the manifest is rewritten by yaml.dump with the annotation.
WriteManifest ==
    /\ rpc = "write"
    /\ files' = [files EXCEPT ![manifest_path] =
                    Content("pvc", files[manifest_path].name, backup_url, "dumped")]
    /\ rpc' = "apply"
    /\ UNCHANGED <<pvc_mappings, idx, response, backups, chosen_backup, manifest_path, baks,
                   elapsed, raising, outcome, prompts, startFs, copied, applyIssued>>
    /\ UNCHANGED syncVars

\* lines 184-185 raise IOError: open(..., 'w') failed, or the write failed after
\* the file was truncated.
WriteManifestError ==
    /\ rpc = "write"
    /\ \E truncated \in BOOLEAN :
          files' = IF truncated THEN [files EXCEPT ![manifest_path] = Partial] ELSE files
    /\ rpc' = "except"
    /\ UNCHANGED <<pvc_mappings, idx, response, backups, chosen_backup, manifest_path, baks,
                   elapsed, raising, outcome, prompts, startFs, copied, applyIssued>>
    /\ UNCHANGED syncVars

\* line 188: utils.create_from_yaml succeeds.
ApplyManifest ==
    /\ rpc = "apply"
    /\ applyIssued' = applyIssued \cup {idx}
    /\ chosen_backup' = NoBackup
    /\ elapsed' = 0
    /\ rpc' = "wait"
    /\ UNCHANGED <<pvc_mappings, idx, response, backups, manifest_path, files, baks, raising,
                   outcome, prompts, startFs, copied>>
    /\ UNCHANGED syncVars

\* line 188 raises. An IOError, yaml.YAMLError or ApiException is caught by line
\* 195; the FailToCreateError with which create_from_yaml reports the API's
\* refusals is none of them.
ApplyManifestError ==
    /\ rpc = "apply"
    /\ applyIssued' = applyIssued \cup {idx}
    /\ chosen_backup' = NoBackup
    /\ \E caught \in BOOLEAN :
          IF caught
          THEN rpc' = "except" /\ UNCHANGED <<raising, outcome>>
          ELSE rpc' = "finally" /\ raising' = TRUE /\ outcome' = "failed"
    /\ UNCHANGED <<pvc_mappings, idx, response, backups, manifest_path, files, baks, elapsed,
                   prompts, startFs, copied>>
    /\ UNCHANGED syncVars

\* lines 95-100: a poll before the timeout that reports phase Bound; lines 193.
WaitBound ==
    /\ rpc = "wait"
    /\ elapsed < Timeout
    /\ outcome' = "restored"
    /\ rpc' = "finally"
    /\ elapsed' = 0
    /\ UNCHANGED <<pvc_mappings, idx, response, backups, chosen_backup, manifest_path, files,
                   baks, raising, prompts, startFs, copied, applyIssued>>
    /\ UNCHANGED syncVars

\* lines 95-103: a poll that reports another phase, or raises ApiException; the
\* loop sleeps 5 seconds.
WaitPoll ==
    /\ rpc = "wait"
    /\ elapsed < Timeout
    /\ \E result \in {"Pending", "ApiException"} : elapsed' = elapsed + PollInterval
    /\ UNCHANGED <<pvc_mappings, idx, rpc, response, backups, chosen_backup, manifest_path, files,
                   baks, raising, outcome, prompts, startFs, copied, applyIssued>>
    /\ UNCHANGED syncVars

\* line 97 raises something that is no ApiException: neither wait_for_pvc_bound
\* nor line 195 catches it.
WaitPollError ==
    /\ rpc = "wait"
    /\ elapsed < Timeout
    /\ raising' = TRUE
    /\ outcome' = "failed"
    /\ rpc' = "finally"
    /\ elapsed' = 0
    /\ UNCHANGED <<pvc_mappings, idx, response, backups, chosen_backup, manifest_path, files,
                   baks, prompts, startFs, copied, applyIssued>>
    /\ UNCHANGED syncVars

\* lines 104-105 and 190-191: the timeout; main raises IOError.
WaitTimeout ==
    /\ rpc = "wait"
    /\ elapsed >= Timeout
    /\ rpc' = "except"
    /\ elapsed' = 0
    /\ UNCHANGED <<pvc_mappings, idx, response, backups, chosen_backup, manifest_path, files,
                   baks, raising, outcome, prompts, startFs, copied, applyIssued>>
    /\ UNCHANGED syncVars

\* lines 195-200: the except clause.
ExceptHandler ==
    /\ rpc = "except"
    /\ LET r == Rollback(files, baks, manifest_path)
       IN  files' = r.files /\ baks' = r.baks
    /\ outcome' = "failed"
    /\ chosen_backup' = NoBackup
    /\ rpc' = "finally"
    /\ UNCHANGED <<pvc_mappings, idx, response, backups, manifest_path, elapsed, raising,
                   prompts, startFs, copied, applyIssued>>
    /\ UNCHANGED syncVars

\* Where main goes after the finally clause: on to the next entry, or out of
\* main with the exception that is propagating.
AfterFinally == IF raising THEN "aborted" ELSE "for"

\* lines 201-202: no ".bak" exists, the finally clause does nothing.
FinallySkip ==
    /\ rpc = "finally"
    /\ baks[manifest_path] = Missing
    /\ rpc' = AfterFinally
    /\ UNCHANGED <<pvc_mappings, idx, response, backups, chosen_backup, manifest_path, files,
                   baks, elapsed, raising, outcome, prompts, startFs, copied, applyIssued>>
    /\ UNCHANGED syncVars

\* A finally clause that leaves an existing ".bak" where it is and asks nothing.
FinallyWithoutAsking ==
    /\ rpc = "finally"
    /\ baks[manifest_path] # Missing
    /\ rpc' = AfterFinally
    /\ UNCHANGED <<pvc_mappings, idx, response, backups, chosen_backup, manifest_path, files,
                   baks, elapsed, raising, outcome, prompts, startFs, copied, applyIssued>>
    /\ UNCHANGED syncVars

\* lines 202-208: the ".bak" exists; "Restore original manifest?" and its answer.
FinallyCleanup ==
    /\ rpc = "finally"
    /\ baks[manifest_path] # Missing
    /\ \E cleanup_choice \in {"y", "n"} :
          /\ prompts' = Append(prompts, Prompt("cleanup", cleanup_choice, 0, 0))
          /\ IF cleanup_choice = "y"
             THEN LET r == MoveBakOver(files, baks, manifest_path)
                  IN  files' = r.files /\ baks' = r.baks
             ELSE UNCHANGED <<files, baks>>
    /\ rpc' = AfterFinally
    /\ UNCHANGED <<pvc_mappings, idx, response, backups, chosen_backup, manifest_path, elapsed,
                   raising, outcome, startFs, copied, applyIssued>>
    /\ UNCHANGED syncVars

RestoreNext ==
    \/ ForNext
    \/ ResolveBackups
    \/ SkipError
    \/ SkipEmpty
    \/ PromptRestore
    \/ SelectBackup
    \/ LocateManifest
    \/ CopyManifest
    \/ CopyManifestError
    \/ LoadManifest
    \/ LoadManifestError
    \/ AnnotateTypeError
    \/ WriteManifest
    \/ WriteManifestError
    \/ ApplyManifest
    \/ ApplyManifestError
    \/ WaitBound
    \/ WaitPoll
    \/ WaitPollError
    \/ WaitTimeout
    \/ ExceptHandler
    \/ FinallySkip
    \/ FinallyCleanup

RestoreSpec == RestoreInit /\ [][RestoreNext]_vars

\* ------------------------------ get_backups_for_volume on its own inputs
ListResponses == Responses(MaxDirs, Timestamps, BadCfgKinds)

ListInit ==
    /\ SyncIdle
    /\ pvc_mappings = <<>>
    /\ idx = 0
    /\ rpc = "call"
    /\ response \in ListResponses
    /\ backups = NoResult
    /\ chosen_backup = NoBackup
    /\ manifest_path = 0
    /\ files = <<Missing, Missing>>
    /\ baks = <<Missing, Missing>>
    /\ elapsed = 0
    /\ raising = FALSE
    /\ outcome = "none"
    /\ prompts = <<>>
    /\ startFs = [files |-> <<Missing, Missing>>, baks |-> <<Missing, Missing>>]
    /\ copied = FALSE
    /\ applyIssued = {}

\* One call of get_backups_for_volume on the catalog answer drawn by ListInit.
ListBackups ==
    /\ rpc = "call"
    /\ backups' = get_backups_for_volume(response)
    /\ rpc' = "returned"
    /\ UNCHANGED <<pvc_mappings, idx, response, chosen_backup, manifest_path, files, baks,
                   elapsed, raising, outcome, prompts, startFs, copied, applyIssued>>
    /\ UNCHANGED syncVars

ListNext == ListBackups

ListSpec == ListInit /\ [][ListNext]_vars

\* ------------------------------------- find_pvc_manifest on its own inputs
\* What the two manifest files may hold when find_pvc_manifest reads them.
FindShapes == {"pvc", "multi", "other", "nonmapping", "nullmetadata", "badyaml", "unreadable"}

FindFiles ==
    { <<Content(s1, n1, <<>>, "orig"), Content(s2, n2, <<>>, "orig")>> :
          s1 \in FindShapes, s2 \in FindShapes, n1 \in {"data", "logs"}, n2 \in {"data", "logs"} }

FindInit ==
    /\ SyncIdle
    /\ pvc_mappings \in { <<e>> : e \in Entries }
    /\ idx = 1
    /\ rpc = "find"
    /\ response = NoResponse
    /\ backups = NoResult
    /\ chosen_backup = NoBackup
    /\ manifest_path = 0
    /\ files \in FindFiles
    /\ baks = <<Missing, Missing>>
    /\ elapsed = 0
    /\ raising = FALSE
    /\ outcome = "none"
    /\ prompts = <<>>
    /\ startFs = [files |-> files, baks |-> baks]
    /\ copied = FALSE
    /\ applyIssued = {}

\* One call of find_pvc_manifest(pvc_name, namespace) on the files drawn by
\* FindInit: a path, None, or an exception that leaves the function.
FindManifest ==
    /\ rpc = "find"
    /\ LET found == find_pvc_manifest(CurrentEntry.pvcName, CurrentEntry.namespace, files)
       IN  /\ manifest_path' = found.file
           /\ raising' = (found.kind = "raise")
           /\ outcome' = found.kind
    /\ rpc' = "found"
    /\ UNCHANGED <<pvc_mappings, idx, response, backups, chosen_backup, files, baks, elapsed,
                   prompts, startFs, copied, applyIssued>>
    /\ UNCHANGED syncVars

FindNext == FindManifest

FindSpec == FindInit /\ [][FindNext]_vars

\* ------------------------------------------------ claims: the synchronizer

\* What a reader of MAPPING_FILE gets as the store: a missing file is an empty store.
StoreIsSnapshotOf(c) ==
    \/ mappingFile = CompleteFile(get_pvc_mapping(ListItems(c)))
    \/ (~mappingFile.exists /\ get_pvc_mapping(ListItems(c)) = <<>>)

\* C3: in every reachable state of the synchronizer the Mapping Store file, when
\* it exists, is a complete document holding the entry list of some enumeration;
\* a reader never sees an empty, truncated or partially written document.
C3_StoreAlwaysComplete ==
    mappingFile.exists =>
        /\ mappingFile.complete
        /\ \E c \in ClusterStates : mappingFile.entries = get_pvc_mapping(ListItems(c))

\* C4: when the stream has ended by timeout or with status 410, the next thing the
\* synchronizer does (short of being shut down) is the full enumeration of
\* Bootstrap, before it reopens the stream.
C4_ResumeReturnsToBootstrap ==
    [][(/\ pc = "watch"
        /\ endCause \in {"timeout", "gone"}
        /\ pc' # pc
        /\ pc' # "unwinding") => pc' = "list"]_vars

\* C5: once configuration has loaded, the synchronizer process ends only by an
\* external shutdown signal; no stream error or API failure makes it exit.
C5_OnlySignalExits == pc = "exited" => exitCause = "signal"

\* C6: when the cluster's claims stop changing and API calls succeed again, the
\* Mapping Store eventually equals the triples of the claims that have a bound
\* volume and stays equal to them, for as long as the synchronizer runs (the
\* moments in which a pass is rewriting the file, and the runs in which writing
\* the file failed, are not held against it).
C6_StoreEventuallyFaithful ==
    <>[](pc = "exited" \/ pc = "dump" \/ ioErrors > 0 \/ StoreIsSnapshotOf(cluster))

\* ------------------------------------------------ claims: the restore tool

\* Processing of the current entry is over: the loop is back at its for
\* statement, or the exception of this entry has left main.
EntryEnded == rpc = "aborted" \/ (rpc = "for" /\ idx > 0)

\* C1: when an entry's transaction fails after the undo-log copy was taken, then
\* at the end of the entry the manifest is what it was before the transaction and
\* the undo-log copy is gone.
C1_FailedTransactionRestoresManifest ==
    (EntryEnded /\ outcome = "failed" /\ copied) =>
        /\ files[manifest_path] = startFs.files[manifest_path]
        /\ baks[manifest_path] = Missing

\* C2: no entry's failure terminates the run: whatever happens while an entry is
\* processed, main does not leave the loop before the end of the list.
C2_RunNeverAborts == rpc # "aborted"

\* The catalog failed for the volume: the listing failed, or some enumerated
\* directory has no usable backup.cfg.
CatalogFailed(resp) ==
    \/ resp.list \in {"client_error", "connection_error"}
    \/ \E i \in 1..Len(resp.dirs) : resp.dirs[i].kind # "ok"

\* C7: a catalog failure is answered with the error outcome, never with an empty
\* or shortened list, and the run skips the entry as skipped-on-error.
C7_CatalogFailureIsError ==
    (response # NoResponse /\ CatalogFailed(response)) =>
        /\ backups = NoneResult
        /\ rpc \in {"resolved", "for"}
        /\ (rpc = "for" => outcome = "skipped_error")

\* C8: a volume whose backups path has no child entries gets the empty sequence,
\* not the error outcome, and the run skips the entry without a prompt, without
\* touching a file and without an apply.
C8_NoBackupsIsEmptyAndSkipped ==
    (response.list = "ok" /\ response.dirs = <<>>) =>
        /\ backups = ListResult(<<>>)
        /\ rpc \in {"resolved", "for"}
        /\ (rpc = "for" =>
              /\ outcome = "skipped_empty"
              /\ prompts = <<>>
              /\ files = startFs.files
              /\ baks = startFs.baks
              /\ idx \notin applyIssued)

C8_Witness ==
    /\ rpc = "for"
    /\ outcome = "skipped_empty"
    /\ response.list = "ok"
    /\ response.dirs = <<>>

\* The creation time a created_at string denotes, in hours.
TimeValue(t) == t[1] * 24 + t[2]

AllCfgOk(resp) == resp.list = "ok" /\ \A i \in 1..Len(resp.dirs) : resp.dirs[i].kind = "ok"

\* C9: the returned sequence is a permutation of the enumerated backups, sorted
\* by creation time descending, and records of equal creation time keep the
\* order of the enumeration (the i-th enumerated backup is named i).
C9_SortedStablePermutation ==
    (rpc = "returned" /\ AllCfgOk(response)) =>
        LET out == backups.items
            n == Len(response.dirs)
        IN  /\ backups.kind = "list"
            /\ Len(out) = n
            /\ \A i \in 1..n : \E j \in 1..n : out[j] = BackupRecord(response.dirs[i])
            /\ \A j, k \in 1..n :
                  j < k =>
                    /\ TimeValue(out[j].created_at) >= TimeValue(out[k].created_at)
                    /\ (out[j].created_at = out[k].created_at => out[j].name < out[k].name)

C9_Witness ==
    /\ rpc = "returned"
    /\ backups.kind = "list"
    /\ Len(backups.items) = 3
    /\ backups.items[1].created_at # backups.items[2].created_at
    /\ backups.items[2].created_at = backups.items[3].created_at
    /\ response.dirs[1].Created # response.dirs[3].Created
    /\ TimeValue(response.dirs[1].Created) < TimeValue(response.dirs[3].Created)

\* C10 as claimed: the annotation written names the volume identifier of the
\* mapping entry being restored.
C10_AnnotationNamesEntryVolume ==
    rpc = "apply" =>
        files[manifest_path].ann =
            << "s3://", Bucket, "@/longhorn/?backup=", chosen_backup.name,
               "&volume=", CurrentEntry.volumeName >>

\* C10 as amended: the annotation written is
\* s3://<bucket>@/longhorn/?backup=<backupName>&volume=<volumeId> with the
\* configured bucket, the chosen backup's name and the VolumeName recorded in
\* the chosen backup's metadata.
C10_AnnotationNamesBackupVolume ==
    rpc = "apply" =>
        files[manifest_path].ann =
            << "s3://", Bucket, "@/longhorn/?backup=", chosen_backup.name,
               "&volume=", chosen_backup.volume_name >>

C10_Witness ==
    /\ rpc = "apply"
    /\ chosen_backup.volume_name # CurrentEntry.volumeName
    /\ files[manifest_path].ann # <<>>

\* The operator answered the cleanup question of this entry with "keep".
KeptAnnotated ==
    \E i \in 1..Len(prompts) : prompts[i].q = "cleanup" /\ prompts[i].a # "y"

\* C11: when the processing of an entry ends, on every exit path (the exceptions
\* the except clause does not catch included), a manifest this entry left
\* carrying the restoration annotation is one about which the operator was asked
\* the cleanup question during this entry and answered to keep it.
C11_AnnotatedOnlyIfKept ==
    EntryEnded =>
        \A m \in FileIds :
            (files[m].ann # <<>> /\ files[m] # startFs.files[m]) => KeptAnnotated

C11_Witness ==
    /\ rpc = "aborted"
    /\ manifest_path \in FileIds
    /\ files[manifest_path].ann # <<>>
    /\ files[manifest_path] # startFs.files[manifest_path]
    /\ KeptAnnotated

\* The last answer of the operator chose no backup: the restore question was
\* answered with something other than "y" and "list", or the number question
\* with a text that is no number or a number outside 1..shown.
OperatorChoseNothing ==
    /\ prompts # <<>>
    /\ LET p == prompts[Len(prompts)]
       IN  \/ p.q = "restore" /\ p.a \notin {"y", "list"}
           \/ p.q = "select" /\ (p.a = "text" \/ p.n < 1 \/ p.n > p.shown)

\* No manifest file holds a claim document of the entry's name under a path
\* that contains the entry's namespace.
NoManifestFor(entry, fs) ==
    \A i \in FileIds :
        ~ /\ fs[i].shape \in {"pvc", "nullann", "multi"}
          /\ fs[i].name = entry.pvcName
          /\ PathContains(i, entry.namespace)

\* C12: an entry the operator declined, answered with no valid selection, or for
\* which no manifest is located ends with every manifest file and every ".bak"
\* as it was when the entry began, and with no apply issued for it.
C12_NoSelectionNoMutation ==
    (/\ rpc = "for"
     /\ idx > 0
     /\ OperatorChoseNothing \/ (prompts # <<>> /\ NoManifestFor(CurrentEntry, startFs.files))) =>
        /\ files = startFs.files
        /\ baks = startFs.baks
        /\ idx \notin applyIssued

C12_Witness ==
    /\ rpc = "for"
    /\ idx = 2
    /\ applyIssued = {1}
    /\ files # [i \in FileIds |-> Content(files[i].shape, files[i].name, <<>>, "orig")]
    /\ prompts # <<>>
    /\ prompts[Len(prompts)].q = "select"
    /\ prompts[Len(prompts)].n > prompts[Len(prompts)].shown

\* C16: when creating the undo-log copy fails (also after the sibling file was
\* partly written, also with a sibling file of an earlier transaction on disk),
\* the entry ends with the manifest files as they were when it began and with no
\* apply issued.
C16_CopyFailureLeavesManifest ==
    (rpc = "for" /\ idx > 0 /\ outcome = "failed" /\ ~copied) =>
        /\ files = startFs.files
        /\ idx \notin applyIssued

\* The transaction is under way: from the copy to the end of the try block, the
\* except clause not yet run.
InTransaction ==
    \/ rpc \in {"load", "write", "apply", "wait", "except"}
    \/ rpc = "finally" /\ (raising \/ outcome = "restored")

\* C17: in every state of a transaction in which the manifest was rewritten or the
\* apply was issued, the ".bak" holds what the manifest held before the
\* transaction; and the steps come in the order copy, mutate, apply, bound-wait.
C17_UndoLogBeforeMutation ==
    /\ (InTransaction /\ (files[manifest_path] # startFs.files[manifest_path]
                             \/ idx \in applyIssued)) =>
           /\ copied
           /\ baks[manifest_path] = startFs.files[manifest_path]
    /\ rpc \in {"load", "write"} => (copied /\ files = startFs.files /\ idx \notin applyIssued)
    /\ rpc = "apply" => (copied /\ files[manifest_path].ann # <<>> /\ idx \notin applyIssued)
    /\ rpc = "wait" => (copied /\ files[manifest_path].ann # <<>> /\ idx \in applyIssued)

C17_Witness ==
    /\ rpc = "wait"
    /\ elapsed > 0
    /\ startFs.baks[manifest_path] = StaleBak
    /\ baks[manifest_path] = startFs.files[manifest_path]
    /\ files[manifest_path].ann # <<>>

\* C18: the bound-wait ends in one of two ways only: with success, on a poll made
\* before the timeout that reports Bound, or with failure once the timeout has
\* elapsed; a status read that fails is followed by the sleep and the next poll.
C18_WaitEndsBoundOrTimeout ==
    [][(rpc = "wait" /\ rpc' # "wait") =>
          \/ (rpc' = "finally" /\ outcome' = "restored" /\ ~raising' /\ elapsed < Timeout)
          \/ (rpc' = "except" /\ elapsed >= Timeout)]_vars

\* The cleanup questions asked during the current entry.
CleanupAnswers == SelectSeq(prompts, LAMBDA p : p.q = "cleanup")

\* C19: after a transaction that reached Bound the cleanup question is asked
\* exactly once: "y" leaves the manifest as it was before the transaction and no
\* ".bak", any other answer leaves the annotated manifest and the ".bak"; after
\* a transaction whose except clause ran the rollback, the question is not asked;
\* after one that an uncaught exception ended, it is asked once as well.
C19_CleanupOnceUnlessRolledBack ==
    /\ (rpc = "aborted" /\ copied) => Len(CleanupAnswers) = 1
    /\ (rpc = "for" /\ idx > 0) =>
        /\ outcome = "restored" =>
              /\ Len(CleanupAnswers) = 1
              /\ IF CleanupAnswers[1].a = "y"
                 THEN /\ files[manifest_path] = startFs.files[manifest_path]
                      /\ baks[manifest_path] = Missing
                 ELSE /\ files[manifest_path].ann # <<>>
                      /\ baks[manifest_path] = startFs.files[manifest_path]
        /\ outcome = "failed" =>
              /\ CleanupAnswers = <<>>
              /\ baks[manifest_path] = Missing
              /\ copied => files[manifest_path] = startFs.files[manifest_path]

C19_Witness ==
    /\ rpc = "for"
    /\ idx > 0
    /\ outcome = "restored"
    /\ Len(CleanupAnswers) = 1
    /\ CleanupAnswers[1].a = "y"
    /\ files[manifest_path].fmt = "orig"
    /\ idx \in applyIssued

\* The files that hold a claim document of the name under a path containing the
\* namespace.
MatchingFiles(entry, fs) ==
    { i \in FileIds : /\ fs[i].shape \in {"pvc", "nullann", "multi"}
                      /\ fs[i].name = entry.pvcName
                      /\ PathContains(i, entry.namespace) }

\* C20: find returns the first file, in traversal order, that holds a claim
\* document of the name under a path containing the namespace, and None when no
\* file does; an unreadable or malformed file (not YAML, a document that is no
\* mapping, a metadata that is no mapping) counts as no match and never ends the
\* search.
C20_FindFirstMatchSkippingBad ==
    rpc = "found" =>
        /\ ~raising
        /\ LET matching == MatchingFiles(CurrentEntry, files)
           IN  IF matching = {} THEN manifest_path = 0
               ELSE /\ manifest_path \in matching
                    /\ \A i \in matching : manifest_path <= i

\* C15: a shutdown signal that arrives in any state of the synchronizer (while it
\* enumerates, reads the stream, waits to settle or waits to back off) is followed
\* by the end of the process: no except clause absorbs the SystemExit.
C15_SignalTerminates == (pc = "unwinding") ~> (pc = "exited")

C15_Witness ==
    /\ pc = "exited"
    /\ exitCause = "signal"
    /\ signalAt.pc = "list"
    /\ signalAt.caller = "event"

\* ------------------------------------------------ claims: the passes

\* entries holds exactly one entry for each enumerated item that has a volume
\* name, none for an item without one, nothing else, and no (namespace, claim
\* name) pair twice.
OneEntryPerBoundClaim(entries, items) ==
    /\ \A i \in 1..Len(items) :
          LET matching == { j \in 1..Len(entries) :
                               /\ entries[j].namespace = items[i].namespace
                               /\ entries[j].pvcName = items[i].name }
          IN  IF items[i].volume_name # NoVolume
              THEN /\ Cardinality(matching) = 1
                   /\ \A j \in matching : entries[j].volumeName = items[i].volume_name
              ELSE matching = {}
    /\ \A j \in 1..Len(entries) :
          \E i \in 1..Len(items) :
              /\ entries[j].namespace = items[i].namespace
              /\ entries[j].pvcName = items[i].name
    /\ \A j, k \in 1..Len(entries) :
          (entries[j].namespace = entries[k].namespace /\ entries[j].pvcName = entries[k].pvcName)
              => j = k

\* C13: the Mapping Store a successful pass leaves is a complete document with
\* exactly one entry per enumerated claim that has a volume, none for a claim
\* without one, and no two entries of the same (namespace, claim name).
C13_StoreOneEntryPerBoundClaim ==
    lastPass.done =>
        /\ lastPass.store.exists
        /\ lastPass.store.complete
        /\ OneEntryPerBoundClaim(lastPass.store.entries, lastPass.items)

C13_Witness ==
    /\ lastPass.done
    /\ Len(lastPass.items) = 2
    /\ Len(lastPass.store.entries) = 1
    /\ mappingFile = lastPass.store

\* C14: a pass that enumerates what the pass before it enumerated leaves the
\* same Mapping Store as that pass did, whatever the file held in between and
\* before.
C14_PassIsIdempotentRebuild ==
    (lastPass.done /\ lastPass.repeat) => lastPass.store = lastPass.prev_store

C14_Witness ==
    /\ lastPass.done
    /\ lastPass.repeat
    /\ lastPass.store.entries # <<>>
    /\ mappingFile = lastPass.store
    /\ ioErrors > 0

====
